---- MODULE Spec2Model ----
(***************************************************************************)
(* Model of libseccomp's architecture layer, src/arch.c: the native        *)
(* architecture descriptor, the syscall table lookup, the argument offset  *)
(* dispatch, name <-> number resolution, cross-architecture translation    *)
(* and the dispatch of the architecture specific rewrites.                 *)
(*                                                                         *)
(* The per-architecture pieces arch.c includes (arch-i386.h and            *)
(* arch-x86_64.h: the syscall tables, the argument count and offset        *)
(* macros, i386_syscall_rewrite and i386_filter_rewrite) are not part of   *)
(* the sources at hand; they are modelled from the written specification   *)
(* and are marked so below.                                                *)
(***************************************************************************)
EXTENDS Integers, Sequences, FiniteSets, TLC

(***************************************************************************)
(* Bounds of the model.                                                    *)
(***************************************************************************)
\* real syscall numbers in a table are 0..MaxSyscallNum
MaxSyscallNum == 1
\* pseudo syscall numbers in a table: the sentinel and -101 .. -(100+NumPseudo)
NumPseudo == 1
\* argument indexes probed past the architecture's argument count
MaxArgOver == 1
\* length of an argument comparison chain
MaxChainLen == 2
\* highest argument index a chain element compares
MaxChainArg == 1

(***************************************************************************)
(* Program constants.                                                      *)
(***************************************************************************)
EDOM == 33
EFAULT == 14
\* the failure code of the argument geometry of arch-x86_64.h
EINVAL == 22
\* seccomp.h: the error / table terminator value ("returns -1 on failure")
__NR_SCMP_ERROR == -1
\* the C null pointer, as a name and as a table
NULL == "NULL"
NULL_TABLE == <<>>

AUDIT_ARCH_I386 == "AUDIT_ARCH_I386"
AUDIT_ARCH_X86_64 == "AUDIT_ARCH_X86_64"
\* a token arch.c has no case for
AUDIT_ARCH_ARM == "AUDIT_ARCH_ARM"

Tokens == {AUDIT_ARCH_I386, AUDIT_ARCH_X86_64, AUDIT_ARCH_ARM}

\* struct arch_def
ArchDef(token) ==
  [token |-> token,
   size |-> IF token = AUDIT_ARCH_X86_64 THEN "ARCH_SIZE_64" ELSE "ARCH_SIZE_32",
   endian |-> "ARCH_ENDIAN_LITTLE"]

ArchDefs == {ArchDef(t) : t \in Tokens}

(***************************************************************************)
(* Syscall tables (data model of the specification): an array of           *)
(* (name, num) entries closed by the terminator { NULL, __NR_SCMP_ERROR }. *)
(* Names are unique; numbers are unique among the non-pseudo entries;      *)
(* pseudo entries carry negative numbers and may stand anywhere.           *)
(***************************************************************************)
SyscallNames == {"read", "socket"}
\* a name no table holds
AbsentName == "bogus"

RealNums == 0..MaxSyscallNum
PseudoNums == {__NR_SCMP_ERROR} \cup {-(100 + k) : k \in 1..NumPseudo}
TableNums == RealNums \cup PseudoNums

SyscallDef == [name : SyscallNames, num : TableNums]
Terminator == [name |-> NULL, num |-> __NR_SCMP_ERROR]

IsPseudo(num) == num < 0

TableInvariant(body) ==
  /\ \A i, j \in DOMAIN body : i # j => body[i].name # body[j].name
  /\ \A i, j \in DOMAIN body :
       (i # j /\ ~IsPseudo(body[i].num)) => body[i].num # body[j].num

\* names are unique, so a table holds at most one entry per name
TableBodies ==
  {body \in UNION {[1..n -> SyscallDef] : n \in 0..Cardinality(SyscallNames)} :
     TableInvariant(body)}

SyscallTables == {Append(body, Terminator) : body \in TableBodies}

\* the entries of a table before its terminator
Body(table) == SubSeq(table, 1, Len(table) - 1)

VARIABLES
  arch_def_native,       \* the build's native descriptor
  i386_syscall_table,    \* static table of the i386 ABI
  x86_64_syscall_table,  \* static table of the x86_64 ABI
  op,                    \* the function called last
  in,                    \* its arguments on entry
  out                    \* its return value and what it left in the caller's memory

vars == <<arch_def_native, i386_syscall_table, x86_64_syscall_table, op, in, out>>

(***************************************************************************)
(* arch.c                                                                  *)
(***************************************************************************)
\* variant: an unknown token falls back to the first table
_arch_def_lookup_fallback(token) ==
  CASE token = AUDIT_ARCH_X86_64 -> x86_64_syscall_table
    [] OTHER -> i386_syscall_table

_arch_def_lookup(token) ==
  CASE token = AUDIT_ARCH_I386 -> i386_syscall_table
    [] token = AUDIT_ARCH_X86_64 -> x86_64_syscall_table
    [] OTHER -> NULL_TABLE

\* the for loop of arch_syscall_resolve_name, from index iter on
RECURSIVE resolve_name_loop(_, _, _)
resolve_name_loop(table, name, iter) ==
  IF table[iter].name = NULL THEN __NR_SCMP_ERROR
  ELSE IF name = table[iter].name THEN table[iter].num
  ELSE resolve_name_loop(table, name, iter + 1)

\* variant: the name scan ends at the terminator's number, as the number scan does
RECURSIVE resolve_name_loop_numend(_, _, _)
resolve_name_loop_numend(table, name, iter) ==
  IF table[iter].num = __NR_SCMP_ERROR THEN __NR_SCMP_ERROR
  ELSE IF name = table[iter].name THEN table[iter].num
  ELSE resolve_name_loop_numend(table, name, iter + 1)

arch_syscall_resolve_name_numend(arch, name) ==
  LET table == _arch_def_lookup(arch.token) IN
  IF table = NULL_TABLE THEN __NR_SCMP_ERROR
  ELSE resolve_name_loop_numend(table, name, 1)

\* variant: a name that is not found yields zero
RECURSIVE resolve_name_loop_zero(_, _, _)
resolve_name_loop_zero(table, name, iter) ==
  IF table[iter].name = NULL THEN 0
  ELSE IF name = table[iter].name THEN table[iter].num
  ELSE resolve_name_loop_zero(table, name, iter + 1)

arch_syscall_resolve_name_zero(arch, name) ==
  LET table == _arch_def_lookup(arch.token) IN
  IF table = NULL_TABLE THEN __NR_SCMP_ERROR
  ELSE resolve_name_loop_zero(table, name, 1)

arch_syscall_resolve_name(arch, name) ==
  LET table == _arch_def_lookup(arch.token) IN
  IF table = NULL_TABLE THEN __NR_SCMP_ERROR
  ELSE resolve_name_loop(table, name, 1)

\* the for loop of arch_syscall_resolve_num, from index iter on
RECURSIVE resolve_num_loop(_, _, _)
resolve_num_loop(table, num, iter) ==
  IF table[iter].num = __NR_SCMP_ERROR THEN NULL
  ELSE IF num = table[iter].num THEN table[iter].name
  ELSE resolve_num_loop(table, num, iter + 1)

arch_syscall_resolve_num(arch, num) ==
  LET table == _arch_def_lookup(arch.token) IN
  IF table = NULL_TABLE THEN NULL
  ELSE resolve_num_loop(table, num, 1)

\* variant: the number is resolved in the target's table, not the native one
arch_syscall_translate_target(arch, syscall) ==
  IF arch.token # arch_def_native.token THEN
    LET sc_name == arch_syscall_resolve_num(arch, syscall) IN
    IF sc_name = NULL THEN [ret |-> -EFAULT, syscall |-> syscall]
    ELSE LET sc_num == arch_syscall_resolve_name(arch, sc_name) IN
         IF sc_num = __NR_SCMP_ERROR THEN [ret |-> -EFAULT, syscall |-> syscall]
         ELSE [ret |-> 0, syscall |-> sc_num]
  ELSE [ret |-> 0, syscall |-> syscall]

\* variant: the result of the name lookup is stored without the error check
arch_syscall_translate_nocheck(arch, syscall) ==
  IF arch.token # arch_def_native.token THEN
    LET sc_name == arch_syscall_resolve_num(arch_def_native, syscall) IN
    IF sc_name = NULL THEN [ret |-> -EFAULT, syscall |-> syscall]
    ELSE [ret |-> 0, syscall |-> arch_syscall_resolve_name(arch, sc_name)]
  ELSE [ret |-> 0, syscall |-> syscall]

\* variant: the native architecture is bridged through its own table too
arch_syscall_translate_always(arch, syscall) ==
  LET sc_name == arch_syscall_resolve_num(arch_def_native, syscall) IN
  IF sc_name = NULL THEN [ret |-> -EFAULT, syscall |-> syscall]
  ELSE LET sc_num == arch_syscall_resolve_name(arch, sc_name) IN
       IF sc_num = __NR_SCMP_ERROR THEN [ret |-> -EFAULT, syscall |-> syscall]
       ELSE [ret |-> 0, syscall |-> sc_num]

\* variant: *syscall is written before the error check
arch_syscall_translate_early(arch, syscall) ==
  IF arch.token # arch_def_native.token THEN
    LET sc_name == arch_syscall_resolve_num(arch_def_native, syscall) IN
    IF sc_name = NULL THEN [ret |-> -EFAULT, syscall |-> syscall]
    ELSE LET sc_num == arch_syscall_resolve_name(arch, sc_name) IN
         IF sc_num = __NR_SCMP_ERROR THEN [ret |-> -EFAULT, syscall |-> sc_num]
         ELSE [ret |-> 0, syscall |-> sc_num]
  ELSE [ret |-> 0, syscall |-> syscall]

\* returns [ret, syscall]: the return value and *syscall on return
arch_syscall_translate(arch, syscall) ==
  IF arch.token # arch_def_native.token THEN
    LET sc_name == arch_syscall_resolve_num(arch_def_native, syscall) IN
    IF sc_name = NULL THEN [ret |-> -EFAULT, syscall |-> syscall]
    ELSE LET sc_num == arch_syscall_resolve_name(arch, sc_name) IN
         IF sc_num = __NR_SCMP_ERROR THEN [ret |-> -EFAULT, syscall |-> syscall]
         ELSE [ret |-> 0, syscall |-> sc_num]
  ELSE [ret |-> 0, syscall |-> syscall]

(***************************************************************************)
(* arch-x86_64.h and arch-i386.h, as the specification describes them:     *)
(* the argument count of each ABI, and for x86_64 the byte offset of the   *)
(* low and high 32-bit half of an argument in the filter's data, behind    *)
(* the fixed header, low half first on a little-endian machine; an index   *)
(* at or past the argument count is rejected.                              *)
(***************************************************************************)
i386_arg_count_max == 6
x86_64_arg_count_max == 6
\* bytes of the header before the argument area, and of one argument slot
ArgAreaOffset == 16
ArgSlotSize == 8
ArgHalfSize == 4

\* variant: the offset is computed for any index
x86_64_arg_offset_lo_unchecked(arg) == ArgAreaOffset + arg * ArgSlotSize

x86_64_arg_offset_lo(arg) ==
  IF arg >= x86_64_arg_count_max THEN -EINVAL
  ELSE ArgAreaOffset + arg * ArgSlotSize

x86_64_arg_offset_hi(arg) ==
  IF arg >= x86_64_arg_count_max THEN -EINVAL
  ELSE ArgAreaOffset + arg * ArgSlotSize + ArgHalfSize

(***************************************************************************)
(* arch.c: argument geometry                                               *)
(***************************************************************************)
arch_arg_count_max(arch) ==
  CASE arch.token = AUDIT_ARCH_I386 -> i386_arg_count_max
    [] arch.token = AUDIT_ARCH_X86_64 -> x86_64_arg_count_max
    [] OTHER -> -EDOM

arch_arg_offset_lo(arch, arg) ==
  CASE arch.token = AUDIT_ARCH_X86_64 -> x86_64_arg_offset_lo(arg)
    [] OTHER -> -EDOM

arch_arg_offset_hi(arch, arg) ==
  CASE arch.token = AUDIT_ARCH_X86_64 -> x86_64_arg_offset_hi(arg)
    [] OTHER -> -EDOM

(***************************************************************************)
(* arch-i386.c, as the specification describes it: the socket operations   *)
(* have no syscall of their own on i386 (pseudo numbers -101 .. -117) and  *)
(* go through the multiplexed socketcall entry, selected by a leading      *)
(* subcall argument.  The rewrite substitutes the entry's number, prepends *)
(* an equality comparison pinning argument 0 to the selector and shifts    *)
(* every comparison of the chain up by one argument.                       *)
(***************************************************************************)
i386_NR_socketcall == 102
MultiplexedNums == {-(100 + k) : k \in 1..17}
IsMultiplexed(syscall) == syscall \in MultiplexedNums
Selector(syscall) == (-syscall) % 100

SCMP_CMP_EQ == "SCMP_CMP_EQ"
SCMP_CMP_NE == "SCMP_CMP_NE"

\* struct db_api_arg
ChainArg(arg, cmp, datum) == [arg |-> arg, op |-> cmp, datum |-> datum]

ShiftArgs(chain) ==
  [i \in 1..Len(chain) |-> [chain[i] EXCEPT !.arg = @ + 1]]

i386_syscall_rewrite(arch, syscall) ==
  IF IsMultiplexed(syscall)
  THEN [ret |-> 0, syscall |-> i386_NR_socketcall]
  ELSE [ret |-> 0, syscall |-> syscall]

\* variant: the selector comparison is prepended, the chain is not shifted
i386_filter_rewrite_noshift(arch, strict, syscall, chain) ==
  IF IsMultiplexed(syscall)
  THEN [ret |-> 0,
        syscall |-> i386_NR_socketcall,
        chain |-> <<ChainArg(0, SCMP_CMP_EQ, Selector(syscall))>> \o chain]
  ELSE [ret |-> 0, syscall |-> syscall, chain |-> chain]

i386_filter_rewrite(arch, strict, syscall, chain) ==
  IF IsMultiplexed(syscall)
  THEN [ret |-> 0,
        syscall |-> i386_NR_socketcall,
        chain |-> <<ChainArg(0, SCMP_CMP_EQ, Selector(syscall))>> \o ShiftArgs(chain)]
  ELSE [ret |-> 0, syscall |-> syscall, chain |-> chain]

(***************************************************************************)
(* arch.c: rewrites                                                        *)
(***************************************************************************)
\* returns [ret, syscall]
arch_syscall_rewrite(arch, syscall) ==
  CASE arch.token = AUDIT_ARCH_I386 -> i386_syscall_rewrite(arch, syscall)
    [] OTHER -> [ret |-> -EDOM, syscall |-> syscall]

\* variant: every architecture is given the i386 rewrite
arch_filter_rewrite_all(arch, strict, syscall, chain) ==
  i386_filter_rewrite(arch, strict, syscall, chain)

\* returns [ret, syscall, chain]
arch_filter_rewrite(arch, strict, syscall, chain) ==
  CASE arch.token = AUDIT_ARCH_I386 -> i386_filter_rewrite(arch, strict, syscall, chain)
    [] OTHER -> [ret |-> -EDOM, syscall |-> syscall, chain |-> chain]

(***************************************************************************)
(* Calls.  Every function of arch.c is a call a client makes while idle;   *)
(* the call's arguments and results are kept until the client returns.     *)
(***************************************************************************)
\* syscall numbers a caller passes: every table number and one no table holds
CallNums == TableNums \cup {MaxSyscallNum + 1}
CallNames == SyscallNames \cup {AbsentName}
\* argument indexes a caller passes
CallArgs == 0..(x86_64_arg_count_max + MaxArgOver)
\* syscall numbers of the rules a caller rewrites
RuleNums == CallNums \cup {-117}

ChainArgs ==
  {ChainArg(a, c, d) : a \in 0..MaxChainArg, c \in {SCMP_CMP_EQ, SCMP_CMP_NE}, d \in {3, 7}}

\* one comparison per argument, in argument order
Chains ==
  {chain \in UNION {[1..n -> ChainArgs] : n \in 0..MaxChainLen} :
     \A i, j \in DOMAIN chain : i < j => chain[i].arg < chain[j].arg}

Tables == <<arch_def_native, i386_syscall_table, x86_64_syscall_table>>

Idle ==
  /\ op = "none"
  /\ in = [arch |-> arch_def_native]
  /\ out = [ret |-> 0]

Init ==
  /\ arch_def_native \in {ArchDef(AUDIT_ARCH_I386), ArchDef(AUDIT_ARCH_X86_64)}
  /\ i386_syscall_table \in SyscallTables
  /\ x86_64_syscall_table \in SyscallTables
  /\ Idle

DefLookup ==
  \E arch \in ArchDefs :
    /\ op = "none"
    /\ op' = "_arch_def_lookup"
    /\ in' = [arch |-> arch]
    /\ out' = [table |-> _arch_def_lookup(arch.token)]
    /\ UNCHANGED Tables

ArgCountMax ==
  \E arch \in ArchDefs :
    /\ op = "none"
    /\ op' = "arch_arg_count_max"
    /\ in' = [arch |-> arch]
    /\ out' = [ret |-> arch_arg_count_max(arch)]
    /\ UNCHANGED Tables

ArgOffsetLo ==
  \E arch \in ArchDefs, arg \in CallArgs :
    /\ op = "none"
    /\ op' = "arch_arg_offset_lo"
    /\ in' = [arch |-> arch, arg |-> arg]
    /\ out' = [ret |-> arch_arg_offset_lo(arch, arg)]
    /\ UNCHANGED Tables

ArgOffsetHi ==
  \E arch \in ArchDefs, arg \in CallArgs :
    /\ op = "none"
    /\ op' = "arch_arg_offset_hi"
    /\ in' = [arch |-> arch, arg |-> arg]
    /\ out' = [ret |-> arch_arg_offset_hi(arch, arg)]
    /\ UNCHANGED Tables

SyscallResolveName ==
  \E arch \in ArchDefs, name \in CallNames :
    /\ op = "none"
    /\ op' = "arch_syscall_resolve_name"
    /\ in' = [arch |-> arch, name |-> name]
    /\ out' = [ret |-> arch_syscall_resolve_name(arch, name)]
    /\ UNCHANGED Tables

SyscallResolveNum ==
  \E arch \in ArchDefs, num \in CallNums :
    /\ op = "none"
    /\ op' = "arch_syscall_resolve_num"
    /\ in' = [arch |-> arch, num |-> num]
    /\ out' = [name |-> arch_syscall_resolve_num(arch, num)]
    /\ UNCHANGED Tables

SyscallTranslate ==
  \E arch \in ArchDefs, syscall \in CallNums :
    /\ op = "none"
    /\ op' = "arch_syscall_translate"
    /\ in' = [arch |-> arch, syscall |-> syscall]
    /\ out' = arch_syscall_translate(arch, syscall)
    /\ UNCHANGED Tables

SyscallRewrite ==
  \E arch \in ArchDefs, syscall \in RuleNums :
    /\ op = "none"
    /\ op' = "arch_syscall_rewrite"
    /\ in' = [arch |-> arch, syscall |-> syscall]
    /\ out' = arch_syscall_rewrite(arch, syscall)
    /\ UNCHANGED Tables

FilterRewrite ==
  \E arch \in ArchDefs, strict \in {0, 1}, syscall \in RuleNums, chain \in Chains :
    /\ op = "none"
    /\ op' = "arch_filter_rewrite"
    /\ in' = [arch |-> arch, strict |-> strict, syscall |-> syscall, chain |-> chain]
    /\ out' = arch_filter_rewrite(arch, strict, syscall, chain)
    /\ UNCHANGED Tables

\* the client drops the results and is idle again
Return ==
  /\ op # "none"
  /\ op' = "none"
  /\ in' = [arch |-> arch_def_native]
  /\ out' = [ret |-> 0]
  /\ UNCHANGED Tables

(***************************************************************************)
(* Spec: the queries and the translation, over every pair of tables.       *)
(***************************************************************************)
Next ==
  \/ DefLookup
  \/ ArgCountMax
  \/ ArgOffsetLo
  \/ ArgOffsetHi
  \/ SyscallResolveName
  \/ SyscallResolveNum
  \/ SyscallTranslate
  \/ Return

Spec == Init /\ [][Next]_vars

(***************************************************************************)
(* SpecRewrite: the rewrites, which read no table; the tables are empty.   *)
(***************************************************************************)
EmptyTable == <<Terminator>>

InitRewrite ==
  /\ arch_def_native \in {ArchDef(AUDIT_ARCH_I386), ArchDef(AUDIT_ARCH_X86_64)}
  /\ i386_syscall_table = EmptyTable
  /\ x86_64_syscall_table = EmptyTable
  /\ Idle

NextRewrite ==
  \/ SyscallRewrite
  \/ FilterRewrite
  \/ Return

SpecRewrite == InitRewrite /\ [][NextRewrite]_vars

(***************************************************************************)
(* Vocabulary of the properties: the tables read as sets of entries,       *)
(* independently of the scans above.                                       *)
(***************************************************************************)
Supported == {AUDIT_ARCH_I386, AUDIT_ARCH_X86_64}

TableOf(token) ==
  IF token = AUDIT_ARCH_I386 THEN i386_syscall_table ELSE x86_64_syscall_table

BodyOf(token) == Body(TableOf(token))
Entries(token) == {BodyOf(token)[i] : i \in DOMAIN BodyOf(token)}
NamesOf(token) == {e.name : e \in Entries(token)}

\* no entry up to and including position i carries the terminator's number
NoSentinelUpTo(body, i) == \A j \in 1..i : body[j].num # __NR_SCMP_ERROR
\* entry i is the first entry of the table with its number
FirstWithNum(body, i) == \A j \in 1..(i - 1) : body[j].num # body[i].num

Translated ==
  /\ op = "arch_syscall_translate"
  /\ in.arch.token \in Supported
  /\ in.arch.token # arch_def_native.token

C2_TranslateFailsWithoutBridge ==
  (op = "arch_syscall_translate" /\ in.arch.token # arch_def_native.token) =>
    LET A == BodyOf(arch_def_native.token)
        targetNames == IF in.arch.token \in Supported
                       THEN NamesOf(in.arch.token) ELSE {}
        targetEntries == IF in.arch.token \in Supported
                         THEN Entries(in.arch.token) ELSE {}
    IN
    /\ out.ret <= 0
    /\ (\A i \in DOMAIN A : A[i].num # in.syscall) => out.ret < 0
    /\ \A i \in DOMAIN A :
         (A[i].num = in.syscall /\ FirstWithNum(A, i) /\ A[i].name \notin targetNames)
           => out.ret < 0
    /\ out.ret = 0 =>
         \E i \in DOMAIN A, b \in targetEntries :
           A[i].num = in.syscall /\ b.name = A[i].name /\ out.syscall = b.num

\* the native name exists, the target holds only another name: open vs openat
C2_Witness ==
  /\ Translated
  /\ out.ret < 0
  /\ NamesOf(in.arch.token) # {}
  /\ \E a \in Entries(arch_def_native.token) :
       /\ a.num = in.syscall
       /\ ~IsPseudo(a.num)
       /\ a.name \notin NamesOf(in.arch.token)

(***************************************************************************)
(* C3: translating to the native architecture succeeds and leaves every    *)
(* number as it is, numbers of no table and the sentinel included.         *)
(***************************************************************************)
C3_TranslateNativeIsIdentity ==
  (op = "arch_syscall_translate" /\ in.arch.token = arch_def_native.token) =>
    (out.ret = 0 /\ out.syscall = in.syscall)

C3_Witness ==
  /\ op = "arch_syscall_translate"
  /\ in.arch.token = arch_def_native.token
  /\ in.syscall = __NR_SCMP_ERROR
  /\ out.ret = 0
  /\ out.syscall = __NR_SCMP_ERROR
  /\ Entries(arch_def_native.token) # {}

C5_AbsentNameIsError ==
  ( /\ op = "arch_syscall_resolve_name"
    /\ in.arch.token \in Supported
    /\ in.name \notin NamesOf(in.arch.token) ) =>
    /\ out.ret = __NR_SCMP_ERROR
    /\ \A e \in Entries(in.arch.token) : ~IsPseudo(e.num) => e.num # out.ret

C5_Witness ==
  /\ op = "arch_syscall_resolve_name"
  /\ in.arch.token \in Supported
  /\ in.name \notin NamesOf(in.arch.token)
  /\ \E e \in Entries(in.arch.token) : e.num = 0
  /\ out.ret = __NR_SCMP_ERROR

(***************************************************************************)
(* C6: the low and the high offset of an argument index at or past the     *)
(* architecture's argument count is a negative failure code, for every     *)
(* descriptor.                                                             *)
(***************************************************************************)
C6_OffsetRejectsOutOfRange ==
  ( /\ op \in {"arch_arg_offset_lo", "arch_arg_offset_hi"}
    /\ in.arg >= arch_arg_count_max(in.arch) ) =>
    out.ret < 0

C6_Witness ==
  /\ op = "arch_arg_offset_lo"
  /\ in.arch.token = AUDIT_ARCH_X86_64
  /\ in.arg = x86_64_arg_count_max
  /\ out.ret < 0

(***************************************************************************)
(* C7: a strict filter rewrite for an architecture other than i386 returns *)
(* -EDOM and leaves the chain and the syscall number as they were.         *)
(***************************************************************************)
C7_NoQuirkIsUnsupported ==
  ( /\ op = "arch_filter_rewrite"
    /\ in.strict = 1
    /\ in.arch.token # AUDIT_ARCH_I386 ) =>
    /\ out.ret = -EDOM
    /\ out.chain = in.chain
    /\ out.syscall = in.syscall

C7_Witness ==
  /\ op = "arch_filter_rewrite"
  /\ in.strict = 1
  /\ in.arch.token = AUDIT_ARCH_X86_64
  /\ IsMultiplexed(in.syscall)
  /\ Len(in.chain) > 0
  /\ out.ret = -EDOM
  /\ out.chain = in.chain

C9_UnknownTokenFails ==
  in.arch.token \notin Supported =>
    /\ op = "_arch_def_lookup" => out.table = NULL_TABLE
    /\ op = "arch_syscall_resolve_name" => out.ret = __NR_SCMP_ERROR
    /\ op = "arch_syscall_resolve_num" => out.name = NULL
    /\ op \in {"arch_arg_count_max", "arch_arg_offset_lo", "arch_arg_offset_hi"}
         => out.ret = -EDOM
    /\ op = "arch_syscall_translate" => (out.ret < 0 /\ out.syscall = in.syscall)

\* the native table names the number, the target has no table
C9_Witness ==
  /\ op = "arch_syscall_translate"
  /\ in.arch.token = AUDIT_ARCH_ARM
  /\ \E e \in Entries(arch_def_native.token) : e.num = in.syscall /\ ~IsPseudo(e.num)
  /\ out.ret = -EFAULT

(***************************************************************************)
(* C10: a translation that fails leaves the syscall number as it was, and  *)
(* one that succeeds for a non-native target never stores                  *)
(* __NR_SCMP_ERROR.                                                        *)
(***************************************************************************)
C10_TranslateAllOrNothing ==
  op = "arch_syscall_translate" =>
    /\ out.ret # 0 => out.syscall = in.syscall
    /\ (out.ret = 0 /\ in.arch.token # arch_def_native.token)
         => out.syscall # __NR_SCMP_ERROR

\* the target's entry for the name carries the sentinel number
C10_Witness ==
  /\ Translated
  /\ \E a \in Entries(arch_def_native.token), b \in Entries(in.arch.token) :
       /\ a.num = in.syscall
       /\ ~IsPseudo(a.num)
       /\ a.name = b.name
       /\ b.num = __NR_SCMP_ERROR
  /\ out.ret = -EFAULT
  /\ out.syscall = in.syscall

====
